---- MODULE Spec2Model ----
(***************************************************************************)
(* Model of stockist.py: the Stockist ledger (id map, name index, cursor,  *)
(* lock flag) and the DatabaseStockist persistence adapter with its        *)
(* SQLite / PostgreSQL variants.  Strings are sequences of one-character   *)
(* strings, so that '%s_#%d' formatting and str.split('_#') are computed   *)
(* as the code computes them.                                              *)
(***************************************************************************)
EXTENDS Integers, Sequences, FiniteSets, Bags, TLC

\* ------------------------------------------------------------------ bounds
MaxId == 1
MaxCount == 2
MaxRows == 3
MaxCalls == 4

\* ids a caller passes explicitly
Ids == 0 .. MaxId
\* amounts a caller passes to increase_stock / stock_item
Amounts == {1, 2}

\* ------------------------------------------------------------- python values
\* None in the position of an id: an integer that is never a key of stock
NoneId == -1000
\* None in the position of an item: a token that is not a character string
NoneItem == <<"None">>
\* item names a caller passes; the last one contains the separator
Items == {<<"a">>, <<"b">>, <<"a", "_", "#", "b">>}
ItemArgs == Items \cup {NoneItem}
IdArgs == Ids \cup {NoneId}
\* a negative integer a caller passes as new_id
NegId == -1

\* exceptions
NoExc == "none"
StockLockedError == "StockLockedError"
InvalidItem == "StockError: Unable to process NoneType!"
DuplicateId == "StockError: Stock ID already in use!"
StockConnectionError == "StockConnectionError: No database connection!"
KeyError == "KeyError"
ValueError == "ValueError"
AttributeError == "AttributeError"
NotImplementedError == "NotImplementedError"
OperationalError == "OperationalError"
ProgrammingError == "ProgrammingError"

\* classes
Kinds == {"Stockist", "DatabaseStockist", "SQLiteStockist", "PostgreSQLStockist"}
ConcreteKinds == {"SQLiteStockist", "PostgreSQLStockist"}

VARIABLES
    kind,          \* class of the instance
    connected,     \* _connection is not None
    stock,         \* _stock: stock id -> record
    name_id_map,   \* _name_id_map: item name -> set of <<stock_id, unique_name>>
    cursor,        \* _next_free_stock_id
    locked,        \* _lock_stock
    tableExists,   \* the store has the table STOCK_TABLE
    rows,          \* the rows of the table, a bag of [pk, name, count]
    mirrored,      \* every call so far was a successful persisted ledger call
    calls,         \* number of calls made so far on a DatabaseStockist
    last           \* the call that has just ended: [op, branch, exc, ret], or Idle

vars == <<kind, connected, stock, name_id_map, cursor, locked, tableExists,
          rows, mirrored, calls, last>>

\* ------------------------------------------------------------------ strings
Sep == <<"_", "#">>

Digit(d) == <<"0", "1", "2", "3", "4", "5", "6", "7", "8", "9">>[d + 1]

RECURSIVE NatToStr(_)
NatToStr(n) == IF n < 10 THEN <<Digit(n)>>
               ELSE NatToStr(n \div 10) \o <<Digit(n % 10)>>

\* '%d' % n
IntToStr(n) == IF n < 0 THEN <<"-">> \o NatToStr(0 - n) ELSE NatToStr(n)

\* str(item)
Str(item) == IF item = NoneItem THEN <<"N", "o", "n", "e">> ELSE item

\* index of the first occurrence of Sep in s at or after i, 0 when there is none
RECURSIVE FindSep(_, _)
FindSep(s, i) == IF i + 1 > Len(s) THEN 0
                 ELSE IF s[i] = Sep[1] /\ s[i + 1] = Sep[2] THEN i
                 ELSE FindSep(s, i + 1)

\* s.split('_#')
RECURSIVE Split(_)
Split(s) == LET cut(i) == IF i = 0 THEN <<s>>
                          ELSE <<SubSeq(s, 1, i - 1)>>
                                  \o Split(SubSeq(s, i + 2, Len(s)))
            IN cut(FindSep(s, 1))

\* ---------------------------------------------------------- ledger helpers
NoFault == 1000
\* the numbers of statements a failing store runs before the one that fails
Faults == {0, 1}

\* the state a call works on; exc and ret are the call's outcome
\* ok is the number of statements the store still runs before one fails;
\* NoFault stands for a store that does not fail
Here == [stock |-> stock, name_id_map |-> name_id_map, cursor |-> cursor,
         locked |-> locked, tableExists |-> tableExists, rows |-> rows,
         ok |-> NoFault, exc |-> NoExc, ret |-> NoneId]

Raise(s, e) == [s EXCEPT !.exc = e]
Returns(s, v) == [s EXCEPT !.ret = v]

\* values a caller assigns to stock_locked, as <<type, repr>>
PyTrue == <<"bool", "True">>
PyFalse == <<"bool", "False">>
LockValues == {PyTrue, PyFalse, <<"str", "abc">>, <<"NoneType", "None">>,
               <<"int", "1">>, <<"int", "0">>}

\* the stock_locked property, and is_locked which returns it
stock_locked(s) == s.locked
is_locked(s) == stock_locked(s)

\* mutant: the setter lacks the isinstance check and keeps the value's truth
set_stock_locked_unchecked(s, value) ==
    [s EXCEPT !.locked = value[2] \in {"True", "abc", "1"}]

\* the stock_locked setter
set_stock_locked(s, value) ==
    IF value[1] # "bool" THEN Raise(s, ValueError)
    ELSE [s EXCEPT !.locked = (value = PyTrue)]

\* self.stock_locked = True / False
lock_stock_list(s) == [s EXCEPT !.locked = TRUE]

\* mutant: the flag stays as it is
unlock_stock_list_keeps(s) == s

unlock_stock_list(s) == [s EXCEPT !.locked = FALSE]

create_item_data(new_id, item) ==
    [stock_id |-> new_id,
     unique_name |-> Str(item) \o Sep \o IntToStr(new_id),
     count |-> 0]

\* mutant: an if in place of the while, the cursor steps over one live id only
NextFreeFrom_once(stk, c) == IF c \in DOMAIN stk THEN c + 1 ELSE c

\* the while loop of the next_free_stock_id property, from cursor c
RECURSIVE NextFreeFrom(_, _)
NextFreeFrom(stk, c) == IF c \in DOMAIN stk THEN NextFreeFrom(stk, c + 1) ELSE c

\* mutant: the scan starts from zero on every read
next_free_stock_id_rescan(s) ==
    LET found(n) == [s EXCEPT !.cursor = n, !.ret = n]
    IN found(NextFreeFrom(s.stock, 0))

next_free_stock_id(s) ==
    LET found(n) == [s EXCEPT !.cursor = n, !.ret = n]
    IN found(NextFreeFrom(s.stock, s.cursor))

stock_ids_for_item(s, item) ==
    IF Str(item) \in DOMAIN s.name_id_map
    THEN {p[1] : p \in s.name_id_map[Str(item)]}
    ELSE {}

item_stocked(s, item) == Str(item) \in DOMAIN s.name_id_map

\* __contains__ with an integer key, and with any other key
contains_id(s, stock_id) == stock_id \in DOMAIN s.stock
contains_item(s, item) == Str(item) \in DOMAIN s.name_id_map

\* sorted(S)[-1]
SetMax(S) == CHOOSE x \in S : \A y \in S : y <= x

last_stock_id_for_item(s, item) ==
    LET last_of(ids) == IF ids = {} THEN NoneId ELSE SetMax(ids)
    IN last_of(stock_ids_for_item(s, item))

\* None in the position of a record
NoneEntry == [stock_id |-> NoneId, unique_name |-> <<>>, count |-> 0]

\* self.stock.get(self.last_stock_id_for_item(item), None)
last_stock_entry_for_item(s, item) ==
    LET get(id) == IF id \in DOMAIN s.stock THEN s.stock[id] ELSE NoneEntry
    IN get(last_stock_id_for_item(s, item))

\* dict with key k removed
DictDel(d, k) == [x \in DOMAIN d \ {k} |-> d[x]]
\* dict with d[k] = v
DictSet(d, k, v) == [x \in DOMAIN d \cup {k} |-> IF x = k THEN v ELSE d[x]]

\* -------------------------------------------------------------- the store
\* the SQL templates a class supplies
HasInsert == kind \in ConcreteKinds
HasDelete == kind \in ConcreteKinds
HasUpdate == kind \in ConcreteKinds

RECURSIVE SumCopies(_, _)
SumCopies(B, S) == IF S = {} THEN 0
                   ELSE LET r == CHOOSE x \in S : TRUE
                        IN B[r] + SumCopies(B, S \ {r})

\* what a statement inside "with self.connection" meets before it runs
\* the driver's error for a statement on a table that does not exist
NoSuchTable == IF kind = "PostgreSQLStockist" THEN ProgrammingError
               ELSE OperationalError

StoreFault(s) == IF ~connected THEN StockConnectionError
                 ELSE IF ~s.tableExists THEN NoSuchTable
                 ELSE IF s.ok = 0 THEN OperationalError
                 ELSE NoExc

\* the block "with self.connection" has run its statement and committed
Committed(s) == [s EXCEPT !.ok = IF @ = NoFault THEN @ ELSE @ - 1]

\* INSERT INTO stock VALUES (pk, name, count), for every entry of the set
InsertRows(B, entries) == B (+) SetToBag(entries)

\* DELETE FROM stock WHERE pk = k
DeleteRows(B, k) == [r \in {x \in DOMAIN B : x.pk # k} |-> B[r]]

\* UPDATE stock SET count = c WHERE pk = k
UpdateRows(B, c, k) ==
    LET upd(r) == IF r.pk = k THEN [r EXCEPT !.count = c] ELSE r
        image == {upd(r) : r \in DOMAIN B}
    IN [n \in image |-> SumCopies(B, {r \in DOMAIN B : upd(r) = n})]

create_stock_entry(s, stock_id) ==
    [pk |-> s.stock[stock_id].stock_id,
     name |-> s.stock[stock_id].unique_name,
     count |-> s.stock[stock_id].count]

create_stock_entries(s) == {create_stock_entry(s, k) : k \in DOMAIN s.stock}

\* ------------------------------------------------- Stockist: delete, create
\* mutant: the pair is not discarded from the name index
Stockist_delete_stock_entry_keeps_pair(s, old_id) ==
    IF s.locked THEN Raise(s, StockLockedError)
    ELSE IF old_id \notin DOMAIN s.stock THEN Raise(s, KeyError)
    ELSE LET discard(unique_name, parts) ==
                IF Len(parts) # 2 THEN Raise(s, ValueError)
                ELSE IF parts[1] \notin DOMAIN s.name_id_map
                     THEN Raise(s, KeyError)
                ELSE [s EXCEPT !.stock = DictDel(s.stock, old_id),
                               !.ret = NoneId]
         IN discard(s.stock[old_id].unique_name,
                    Split(s.stock[old_id].unique_name))

\* mutant: the method lacks the locked_method decorator
Stockist_delete_stock_entry_unlocked(s, old_id) ==
    IF old_id \notin DOMAIN s.stock THEN Raise(s, KeyError)
    ELSE LET discard(unique_name, parts) ==
                IF Len(parts) # 2 THEN Raise(s, ValueError)
                ELSE IF parts[1] \notin DOMAIN s.name_id_map
                     THEN Raise(s, KeyError)
                ELSE [s EXCEPT
                        !.name_id_map = DictSet(s.name_id_map, parts[1],
                            s.name_id_map[parts[1]] \ {<<old_id, unique_name>>}),
                        !.stock = DictDel(s.stock, old_id),
                        !.ret = NoneId]
         IN discard(s.stock[old_id].unique_name,
                    Split(s.stock[old_id].unique_name))

\* mutant: an absent id is ignored (stock.pop(old_id, None))
Stockist_delete_stock_entry_lenient(s, old_id) ==
    IF s.locked THEN Raise(s, StockLockedError)
    ELSE IF old_id \notin DOMAIN s.stock THEN s
    ELSE LET discard(unique_name, parts) ==
                IF Len(parts) # 2 THEN Raise(s, ValueError)
                ELSE IF parts[1] \notin DOMAIN s.name_id_map
                     THEN Raise(s, KeyError)
                ELSE [s EXCEPT
                        !.name_id_map = DictSet(s.name_id_map, parts[1],
                            s.name_id_map[parts[1]] \ {<<old_id, unique_name>>}),
                        !.stock = DictDel(s.stock, old_id),
                        !.ret = NoneId]
         IN discard(s.stock[old_id].unique_name,
                    Split(s.stock[old_id].unique_name))

Stockist_delete_stock_entry(s, old_id) ==
    IF s.locked THEN Raise(s, StockLockedError)
    ELSE IF old_id \notin DOMAIN s.stock THEN Raise(s, KeyError)
    ELSE LET discard(unique_name, parts) ==
                IF Len(parts) # 2 THEN Raise(s, ValueError)
                ELSE IF parts[1] \notin DOMAIN s.name_id_map
                     THEN Raise(s, KeyError)
                ELSE [s EXCEPT
                        !.name_id_map = DictSet(s.name_id_map, parts[1],
                            s.name_id_map[parts[1]] \ {<<old_id, unique_name>>}),
                        !.stock = DictDel(s.stock, old_id),
                        !.ret = NoneId]
         IN discard(s.stock[old_id].unique_name,
                    Split(s.stock[old_id].unique_name))

DatabaseStockist_delete_stock_entry(s, old_id, update_db) ==
    LET \* after super().delete_stock_entry(old_id) has left s1
        mirror(s1) ==
            IF s1.exc # NoExc THEN s1
            ELSE IF ~HasDelete /\ update_db THEN Raise(s1, NotImplementedError)
            ELSE IF update_db
                 THEN IF StoreFault(s1) # NoExc THEN Raise(s1, StoreFault(s1))
                      ELSE Committed([s1 EXCEPT !.rows =
                                         DeleteRows(s1.rows, old_id)])
                 ELSE s1
    IN mirror(Stockist_delete_stock_entry(s, old_id))

\* self.delete_stock_entry: the method the instance's class resolves to
delete_stock_entry(s, old_id, update_db) ==
    IF kind = "Stockist" THEN Stockist_delete_stock_entry(s, old_id)
    ELSE DatabaseStockist_delete_stock_entry(s, old_id, update_db)

\* mutant: an id in use is replaced whether force is set or not
Stockist_new_stock_item_replaces(s, item, new_id, force) ==
    IF s.locked THEN Raise(s, StockLockedError)
    ELSE IF item = NoneItem THEN Raise(s, InvalidItem)
    ELSE LET \* name_id_map[str(item)] = existing_items; stock[new_id] = item_data
             file(s2, id, item_data, key) ==
                IF s2.exc # NoExc THEN s2
                ELSE [s2 EXCEPT
                        !.name_id_map = DictSet(s2.name_id_map, key,
                            (IF key \in DOMAIN s2.name_id_map
                             THEN s2.name_id_map[key] ELSE {})
                                \cup {<<id, item_data.unique_name>>}),
                        !.stock = DictSet(s2.stock, id, item_data),
                        !.ret = id]
             \* if new_id in self.stock_ids
             claim(s1, id) ==
                file(IF id \in DOMAIN s1.stock
                     THEN delete_stock_entry(s1, id, TRUE)
                     ELSE s1,
                     id, create_item_data(id, item), Str(item))
             \* if new_id is None: new_id = self.next_free_stock_id
             alloc(s1) == claim(s1, IF new_id = NoneId THEN s1.ret ELSE new_id)
         IN alloc(IF new_id = NoneId THEN next_free_stock_id(s) ELSE s)

Stockist_new_stock_item(s, item, new_id, force) ==
    IF s.locked THEN Raise(s, StockLockedError)
    ELSE IF item = NoneItem THEN Raise(s, InvalidItem)
    ELSE LET \* name_id_map[str(item)] = existing_items; stock[new_id] = item_data
             file(s2, id, item_data, key) ==
                IF s2.exc # NoExc THEN s2
                ELSE [s2 EXCEPT
                        !.name_id_map = DictSet(s2.name_id_map, key,
                            (IF key \in DOMAIN s2.name_id_map
                             THEN s2.name_id_map[key] ELSE {})
                                \cup {<<id, item_data.unique_name>>}),
                        !.stock = DictSet(s2.stock, id, item_data),
                        !.ret = id]
             \* if new_id in self.stock_ids
             claim(s1, id) ==
                file(IF id \in DOMAIN s1.stock
                     THEN IF force THEN delete_stock_entry(s1, id, TRUE)
                          ELSE Raise(s1, DuplicateId)
                     ELSE s1,
                     id, create_item_data(id, item), Str(item))
             \* if new_id is None: new_id = self.next_free_stock_id
             alloc(s1) == claim(s1, IF new_id = NoneId THEN s1.ret ELSE new_id)
         IN alloc(IF new_id = NoneId THEN next_free_stock_id(s) ELSE s)

DatabaseStockist_new_stock_item(s, item, new_id, force, update_db) ==
    LET \* after super().new_stock_item(item, new_id, force) has left s1
        mirror(s1) ==
            IF s1.exc # NoExc THEN s1
            ELSE IF ~HasInsert /\ update_db THEN Raise(s1, NotImplementedError)
            ELSE IF update_db
                 THEN IF StoreFault(s1) # NoExc THEN Raise(s1, StoreFault(s1))
                      ELSE Committed([s1 EXCEPT !.rows =
                              InsertRows(s1.rows,
                                         {create_stock_entry(s1, s1.ret)})])
                 ELSE s1
    IN mirror(Stockist_new_stock_item(s, item, new_id, force))

new_stock_item(s, item, new_id, force, update_db) ==
    IF kind = "Stockist" THEN Stockist_new_stock_item(s, item, new_id, force)
    ELSE DatabaseStockist_new_stock_item(s, item, new_id, force, update_db)

\* ------------------------------------------- Stockist: increase, stock_item
\* mutant: the count is set to the amount (= in place of +=)
Stockist_increase_stock_sets(s, stock_id, amount) ==
    IF stock_id \notin DOMAIN s.stock THEN Raise(s, KeyError)
    ELSE [s EXCEPT !.stock[stock_id].count = amount, !.ret = NoneId]

Stockist_increase_stock(s, stock_id, amount) ==
    IF stock_id \notin DOMAIN s.stock THEN Raise(s, KeyError)
    ELSE [s EXCEPT !.stock[stock_id].count = @ + amount, !.ret = NoneId]

\* mutant: the UPDATE statement is not run
DatabaseStockist_increase_stock_unmirrored(s, stock_id, amount, update_db) ==
    LET \* after super().increase_stock(stock_id, amount) has left s1
        mirror(s1) ==
            IF s1.exc # NoExc THEN s1
            ELSE IF update_db
                 THEN IF ~connected THEN Raise(s1, StockConnectionError)
                      ELSE IF ~HasUpdate THEN Raise(s1, AttributeError)
                      ELSE IF ~s1.tableExists THEN Raise(s1, NoSuchTable)
                      ELSE IF s1.ok = 0 THEN Raise(s1, OperationalError)
                      ELSE s1
                 ELSE s1
    IN mirror(Stockist_increase_stock(s, stock_id, amount))

DatabaseStockist_increase_stock(s, stock_id, amount, update_db) ==
    LET \* after super().increase_stock(stock_id, amount) has left s1
        mirror(s1) ==
            IF s1.exc # NoExc THEN s1
            ELSE IF update_db
                 THEN IF ~connected THEN Raise(s1, StockConnectionError)
                      ELSE IF ~HasUpdate THEN Raise(s1, AttributeError)
                      ELSE IF ~s1.tableExists THEN Raise(s1, NoSuchTable)
                      ELSE IF s1.ok = 0 THEN Raise(s1, OperationalError)
                      ELSE Committed([s1 EXCEPT !.rows =
                              UpdateRows(s1.rows, s1.stock[stock_id].count,
                                         stock_id)])
                 ELSE s1
    IN mirror(Stockist_increase_stock(s, stock_id, amount))

increase_stock(s, stock_id, amount, update_db) ==
    IF kind = "Stockist" THEN Stockist_increase_stock(s, stock_id, amount)
    ELSE DatabaseStockist_increase_stock(s, stock_id, amount, update_db)

\* the branch stock_item takes
stock_item_branch(s, item, item_id, create) ==
    IF item # NoneItem
    THEN IF create \/ ~item_stocked(s, item) THEN "new"
         ELSE IF item_id = NoneId THEN "last" ELSE "id"
    ELSE "id"

stock_item(s, item, item_id, amount, create) ==
    LET \* self.increase_stock(item_id, amount); return item_id
        increased(s2, id) == IF s2.exc # NoExc THEN s2 ELSE Returns(s2, id)
        increase(s1, id) ==
            IF s1.exc # NoExc THEN s1
            ELSE increased(increase_stock(s1, id, amount, TRUE), id)
        take(branch) ==
            IF branch = "new"
            THEN LET created(s1) == increase(s1, s1.ret)
                 IN created(new_stock_item(s, item, item_id, FALSE, TRUE))
            ELSE IF branch = "last"
            THEN increase(s, last_stock_id_for_item(s, item))
            ELSE increase(s, item_id)
    IN take(stock_item_branch(s, item, item_id, create))

\* --------------------------------------------- indexed write, indexed delete
\* __setitem__ with an integer key (key # NoneId) or any other key
setitem(s, key, item) ==
    IF s.locked THEN Raise(s, StockLockedError)
    ELSE LET done(s1) == IF s1.exc # NoExc THEN s1 ELSE Returns(s1, NoneId)
         IN done(new_stock_item(s, item, key, FALSE, TRUE))

\* the loop of __delitem__ over the ids in the order order
RECURSIVE delete_all(_, _)
delete_all(s, order) ==
    IF order = <<>> THEN s
    ELSE LET rest(s1) == IF s1.exc # NoExc THEN s1
                         ELSE delete_all(s1, Tail(order))
         IN rest(delete_stock_entry(s, Head(order), TRUE))

delitem_id(s, key) ==
    IF s.locked THEN Raise(s, StockLockedError)
    ELSE delete_stock_entry(s, key, TRUE)

delitem_name(s, item, order) ==
    IF s.locked THEN Raise(s, StockLockedError)
    ELSE delete_all(s, order)

\* the orders in which a set can be iterated
Orders(S) == {q \in [1 .. Cardinality(S) -> S] :
                 \A i, j \in 1 .. Cardinality(S) : i # j => q[i] # q[j]}

\* ------------------------------------------------ DatabaseStockist: adapter
\* the dicts the database_stock property can build from the rows: one record
\* per pk; SELECT without ORDER BY fixes no order, so with several rows of one
\* pk any of them can be the one the dict comprehension keeps
database_stock(s) ==
    LET pks == {r.pk : r \in DOMAIN s.rows}
    IN {[k \in pks |-> [stock_id |-> f[k].pk, unique_name |-> f[k].name,
                        count |-> f[k].count]] :
          f \in {g \in [pks -> DOMAIN s.rows] : \A k \in pks : g[k].pk = k}}

is_database_up_to_date(s, stock_data) ==
    IF DOMAIN s.stock # {} /\ DOMAIN stock_data = {} THEN FALSE
    ELSE DOMAIN s.stock \subseteq DOMAIN stock_data

\* mutant: the difference is taken the other way round
is_missing_stock_from_database_reversed(s, stock_data) ==
    IF DOMAIN stock_data # {} /\ DOMAIN s.stock = {} THEN TRUE
    ELSE DOMAIN s.stock \ DOMAIN stock_data # {}

is_missing_stock_from_database(s, stock_data) ==
    IF DOMAIN stock_data # {} /\ DOMAIN s.stock = {} THEN TRUE
    ELSE DOMAIN stock_data \ DOMAIN s.stock # {}

\* the for loop of update_stock_from_db over the rows in the order order
RECURSIVE index_rows(_, _, _)
index_rows(s, stock_data, order) ==
    IF order = <<>> THEN s
    ELSE LET add(data, parts) ==
                IF Len(parts) # 2 THEN Raise(s, ValueError)
                ELSE index_rows(
                        [s EXCEPT !.name_id_map = DictSet(s.name_id_map,
                            parts[1],
                            (IF parts[1] \in DOMAIN s.name_id_map
                             THEN s.name_id_map[parts[1]] ELSE {})
                                \cup {<<data.stock_id, data.unique_name>>})],
                        stock_data, Tail(order))
         IN add(stock_data[Head(order)],
                Split(stock_data[Head(order)].unique_name))

update_stock_from_db(s, force, stock_data, order) ==
    IF s.locked THEN Raise(s, StockLockedError)
    ELSE IF StoreFault(s) # NoExc THEN Raise(s, StoreFault(s))
    ELSE IF force \/ is_missing_stock_from_database(s, stock_data)
    THEN LET \* self.stock.update(stock_data)
             update(s1) ==
                IF s1.exc # NoExc THEN s1
                ELSE [s1 EXCEPT !.stock =
                        [k \in DOMAIN s1.stock \cup DOMAIN stock_data |->
                            IF k \in DOMAIN stock_data THEN stock_data[k]
                            ELSE s1.stock[k]]]
         IN update(index_rows(s, stock_data, order))
    ELSE s

create_database(s) ==
    IF ~connected THEN Raise(s, StockConnectionError)
    ELSE IF s.tableExists
         THEN Raise(s, IF kind = "PostgreSQLStockist" THEN ProgrammingError
                       ELSE OperationalError)
    ELSE [s EXCEPT !.tableExists = TRUE, !.rows = EmptyBag]

reset_database(s) ==
    IF ~connected THEN Raise(s, StockConnectionError)
    ELSE [s EXCEPT !.tableExists = TRUE, !.rows = EmptyBag]

\* mutant: the table is not dropped and created anew before the INSERT
dump_stock_to_database_appends(s, ddl_kept) ==
    IF ~connected THEN Raise(s, StockConnectionError)
    ELSE IF ~HasInsert
    THEN IF ddl_kept THEN Raise(reset_database(s), AttributeError)
         ELSE Raise(s, AttributeError)
    ELSE [s EXCEPT !.tableExists = TRUE,
                   !.rows = InsertRows(s.rows, create_stock_entries(s))]

\* ddl_kept: the DROP and CREATE survive the rollback of the failed block
dump_stock_to_database(s, ddl_kept) ==
    IF ~connected THEN Raise(s, StockConnectionError)
    ELSE IF ~HasInsert
    THEN IF ddl_kept THEN Raise(reset_database(s), AttributeError)
         ELSE Raise(s, AttributeError)
    ELSE [s EXCEPT !.tableExists = TRUE,
                   !.rows = InsertRows(EmptyBag, create_stock_entries(s))]

\* the branch update_database takes
update_database_branch(s, force, stock_data) ==
    IF force THEN "force"
    ELSE IF DOMAIN s.stock \ DOMAIN stock_data # {} THEN "insert"
    ELSE "nothing"

\* mutant: every record is inserted, as with force
update_database_all(s, force, stock_data) ==
    IF ~force /\ StoreFault(s) # NoExc THEN Raise(s, StoreFault(s))
    ELSE LET insert(entries) ==
                IF ~connected THEN Raise(s, StockConnectionError)
                ELSE IF ~HasInsert THEN Raise(s, AttributeError)
                ELSE IF ~s.tableExists
                     THEN IF entries = {} /\ kind = "PostgreSQLStockist" THEN s
                          ELSE Raise(s, NoSuchTable)
                ELSE [s EXCEPT !.rows = InsertRows(s.rows, entries)]
         IN insert(create_stock_entries(s))

update_database(s, force, stock_data) ==
    IF ~force /\ StoreFault(s) # NoExc THEN Raise(s, StoreFault(s))
    ELSE LET insert(entries) ==
                IF ~connected THEN Raise(s, StockConnectionError)
                ELSE IF ~HasInsert THEN Raise(s, AttributeError)
                ELSE IF ~s.tableExists
                     THEN \* psycopg2's executemany runs nothing for no entries
                          IF entries = {} /\ kind = "PostgreSQLStockist" THEN s
                          ELSE Raise(s, NoSuchTable)
                ELSE [s EXCEPT !.rows = InsertRows(s.rows, entries)]
         IN insert(IF force THEN create_stock_entries(s)
                   ELSE {create_stock_entry(s, key) :
                           key \in DOMAIN s.stock \ DOMAIN stock_data})

\* ------------------------------------------------------------------ actions
\* the model explores ids up to MaxId, counts up to MaxCount and tables of up
\* to MaxRows rows
Bounded(r) ==
    /\ \A k \in DOMAIN r.stock : k <= MaxId /\ r.stock[k].count <= MaxCount
    /\ BagCardinality(r.rows) <= MaxRows

\* no call is in progress: the caller is about to make its next call
Idle == [op |-> "idle", branch |-> "-", exc |-> NoExc, ret |-> NoneId]

\* a call starts when the previous one has returned; the behaviours of a
\* DatabaseStockist are explored up to MaxCalls calls
Call ==
    /\ last = Idle
    /\ kind # "Stockist" => calls < MaxCalls
    /\ calls' = IF kind = "Stockist" THEN calls ELSE calls + 1

\* a Stockist has no update_db argument
UpdateDbArgs == IF kind = "Stockist" THEN {TRUE} ELSE BOOLEAN

Apply(r, op, branch, keepsMirror) ==
    /\ Call
    /\ Bounded(r)
    /\ stock' = r.stock
    /\ name_id_map' = r.name_id_map
    /\ cursor' = r.cursor
    /\ tableExists' = r.tableExists
    /\ rows' = r.rows
    /\ mirrored' = (mirrored /\ keepsMirror /\ r.exc = NoExc)
    /\ last' = [op |-> op, branch |-> branch, exc |-> r.exc,
                ret |-> IF r.exc = NoExc THEN r.ret ELSE NoneId]
    /\ locked' = r.locked
    /\ UNCHANGED <<kind, connected>>

\* the branch new_stock_item takes on its id
new_branch(new_id, force) ==
    IF new_id = NoneId THEN "auto"
    ELSE IF new_id \notin DOMAIN stock THEN "fresh"
    ELSE IF force THEN "replace" ELSE "duplicate"

NewStockItem(item, new_id, force, update_db) ==
    Apply(new_stock_item(Here, item, new_id, force, update_db),
          "new_stock_item", new_branch(new_id, force), update_db)

DeleteStockEntry(old_id, update_db) ==
    Apply(delete_stock_entry(Here, old_id, update_db),
          "delete_stock_entry", "-", update_db)

IncreaseStock(stock_id, amount, update_db) ==
    Apply(increase_stock(Here, stock_id, amount, update_db),
          "increase_stock", "-", update_db)

StockItem(item, item_id, amount, create) ==
    Apply(stock_item(Here, item, item_id, amount, create),
          "stock_item", stock_item_branch(Here, item, item_id, create), TRUE)

SetItem(key, item) ==
    Apply(setitem(Here, key, item), "__setitem__", "-", TRUE)

DelItemId(key) ==
    Apply(delitem_id(Here, key), "__delitem__", "id", TRUE)

DelItemName(item) ==
    \E order \in Orders(stock_ids_for_item(Here, item)) :
        Apply(delitem_name(Here, item, order), "__delitem__", "name", TRUE)

LockStockList ==
    /\ Call
    /\ locked' = lock_stock_list(Here).locked
    /\ last' = [op |-> "lock_stock_list", branch |-> "-", exc |-> NoExc,
                ret |-> NoneId]
    /\ UNCHANGED <<kind, connected, stock, name_id_map, cursor, tableExists,
                   rows, mirrored>>

UnlockStockList ==
    /\ Call
    /\ locked' = unlock_stock_list(Here).locked
    /\ last' = [op |-> "unlock_stock_list",
                branch |-> IF locked THEN "released" ELSE "-",
                exc |-> NoExc, ret |-> NoneId]
    /\ UNCHANGED <<kind, connected, stock, name_id_map, cursor, tableExists,
                   rows, mirrored>>

\* an assignment to the stock_locked property
SetStockLocked(value) ==
    /\ Call
    /\ locked' = set_stock_locked(Here, value).locked
    /\ last' = [op |-> "stock_locked", branch |-> value[1],
                exc |-> set_stock_locked(Here, value).exc, ret |-> NoneId]
    /\ UNCHANGED <<kind, connected, stock, name_id_map, cursor, tableExists,
                   rows, mirrored>>

\* a read of the next_free_stock_id property
ReadNextFree ==
    /\ Call
    /\ cursor' = next_free_stock_id(Here).cursor
    /\ last' = [op |-> "next_free_stock_id", branch |-> "-", exc |-> NoExc,
                ret |-> next_free_stock_id(Here).ret]
    /\ UNCHANGED <<kind, connected, stock, name_id_map, locked, tableExists,
                   rows, mirrored>>

\* a call of item_stocked; the caller sees True as 1 and False as 0
ItemStocked(item) ==
    /\ Call
    /\ last' = [op |-> "item_stocked",
                branch |-> IF item = NoneItem THEN "null" ELSE "-",
                exc |-> NoExc,
                ret |-> IF item_stocked(Here, item) THEN 1 ELSE 0]
    /\ UNCHANGED <<kind, connected, stock, name_id_map, cursor, locked,
                   tableExists, rows, mirrored>>

\* a call of last_stock_entry_for_item; the caller sees the record's id
LastStockEntryForItem(item) ==
    /\ Call
    /\ last' = [op |-> "last_stock_entry_for_item",
                branch |-> IF stock_ids_for_item(Here, item) = {} THEN "none"
                           ELSE "-",
                exc |-> NoExc,
                ret |-> last_stock_entry_for_item(Here, item).stock_id]
    /\ UNCHANGED <<kind, connected, stock, name_id_map, cursor, locked,
                   tableExists, rows, mirrored>>

\* the external reset: stockist._next_free_stock_id = 0
ResetCursor ==
    /\ Call
    /\ cursor' = 0
    /\ last' = [op |-> "reset_cursor",
                branch |-> IF cursor > 0 THEN "rewind" ELSE "-",
                exc |-> NoExc, ret |-> NoneId]
    /\ UNCHANGED <<kind, connected, stock, name_id_map, locked, tableExists,
                   rows, mirrored>>

UpdateStockFromDb(force) ==
    /\ kind # "Stockist"
    /\ \E stock_data \in database_stock(Here) :
         \E order \in Orders(DOMAIN stock_data) :
            Apply(update_stock_from_db(Here, force, stock_data, order),
                  "update_stock_from_db", "-", FALSE)

CreateDatabase ==
    /\ kind # "Stockist"
    /\ Apply(create_database(Here), "create_database", "-", FALSE)

ResetDatabase ==
    /\ kind # "Stockist"
    /\ Apply(reset_database(Here), "reset_database", "-", FALSE)

DumpStockToDatabase ==
    /\ kind # "Stockist"
    /\ \E ddl_kept \in BOOLEAN :
         Apply(dump_stock_to_database(Here, ddl_kept),
               "dump_stock_to_database",
               IF \E x \in DOMAIN rows : x.pk \notin DOMAIN stock
               THEN "replace" ELSE "-", FALSE)

UpdateDatabase(force) ==
    /\ kind # "Stockist"
    /\ \E stock_data \in database_stock(Here) :
         Apply(update_database(Here, force, stock_data),
               "update_database",
               update_database_branch(Here, force, stock_data), FALSE)

\* a read of the is_database_up_to_date property; True is 1 and False is 0
IsDatabaseUpToDate ==
    /\ kind # "Stockist"
    /\ Call
    /\ \E stock_data \in database_stock(Here) :
         last' = [op |-> "is_database_up_to_date", branch |-> "-",
                  exc |-> StoreFault(Here),
                  ret |-> IF StoreFault(Here) # NoExc THEN NoneId
                          ELSE IF is_database_up_to_date(Here, stock_data)
                               THEN 1 ELSE 0]
    /\ UNCHANGED <<kind, connected, stock, name_id_map, cursor, locked,
                   tableExists, rows, mirrored>>

\* a read of the is_missing_stock_from_database property
IsMissingStockFromDatabase ==
    /\ kind # "Stockist"
    /\ Call
    /\ \E stock_data \in database_stock(Here) :
         last' = [op |-> "is_missing_stock_from_database", branch |-> "-",
                  exc |-> StoreFault(Here),
                  ret |-> IF StoreFault(Here) # NoExc THEN NoneId
                          ELSE IF is_missing_stock_from_database(Here,
                                                                 stock_data)
                               THEN 1 ELSE 0]
    /\ UNCHANGED <<kind, connected, stock, name_id_map, cursor, locked,
                   tableExists, rows, mirrored>>

\* the call's outcome has reached the caller, who goes on to its next call
Return ==
    /\ last # Idle
    /\ last' = Idle
    /\ UNCHANGED <<kind, connected, stock, name_id_map, cursor, locked,
                   tableExists, rows, mirrored, calls>>

\* ------------------------------------------------------------ specification
InitLedger ==
    /\ stock = <<>>
    /\ name_id_map = <<>>
    /\ cursor = 0
    /\ locked = FALSE
    /\ rows = EmptyBag
    /\ calls = 0
    /\ last = Idle

\* a Stockist: no store
Init ==
    /\ kind = "Stockist"
    /\ connected = FALSE
    /\ tableExists = FALSE
    /\ mirrored = FALSE
    /\ InitLedger

\* any of the four classes; a DatabaseStockist or one of its variants is with
\* or without a connection, and its store has the table or not
InitDB ==
    /\ kind \in Kinds
    /\ connected \in (IF kind = "Stockist" THEN {FALSE} ELSE BOOLEAN)
    /\ tableExists \in (IF connected THEN BOOLEAN ELSE {FALSE})
    /\ mirrored = (kind \in ConcreteKinds /\ connected /\ tableExists)
    /\ InitLedger

Next ==
    \/ \E item \in ItemArgs, new_id \in IdArgs, force \in BOOLEAN,
          update_db \in UpdateDbArgs :
            NewStockItem(item, new_id, force, update_db)
    \/ \E old_id \in IdArgs, update_db \in UpdateDbArgs :
            DeleteStockEntry(old_id, update_db)
    \/ \E stock_id \in IdArgs, amount \in Amounts, update_db \in UpdateDbArgs :
            IncreaseStock(stock_id, amount, update_db)
    \/ \E item \in ItemArgs, item_id \in IdArgs, amount \in Amounts,
          create \in BOOLEAN :
            StockItem(item, item_id, amount, create)
    \/ \E key \in IdArgs, item \in ItemArgs : SetItem(key, item)
    \/ \E key \in Ids : DelItemId(key)
    \/ \E item \in Items : DelItemName(item)
    \/ LockStockList
    \/ UnlockStockList
    \/ ReadNextFree
    \/ ResetCursor
    \/ \E item \in ItemArgs : ItemStocked(item)
    \/ \E value \in LockValues : SetStockLocked(value)
    \/ \E item \in ItemArgs : LastStockEntryForItem(item)
    \/ Return

NextDB ==
    \/ Next
    \/ \E force \in BOOLEAN : UpdateStockFromDb(force)
    \/ CreateDatabase
    \/ ResetDatabase
    \/ DumpStockToDatabase
    \/ \E force \in BOOLEAN : UpdateDatabase(force)
    \/ IsDatabaseUpToDate
    \/ IsMissingStockFromDatabase

Spec == Init /\ [][Next]_vars

SpecDB == InitDB /\ [][NextDB]_vars

\* ------------------------------------------------------------------- claims
\* the call's result r leaves the ledger and the store as they are
Untouched(r) ==
    /\ r.stock = stock
    /\ r.name_id_map = name_id_map
    /\ DOMAIN r.name_id_map = DOMAIN name_id_map
    /\ r.cursor = cursor
    /\ r.locked = locked
    /\ r.rows = rows
    /\ r.tableExists = tableExists

\* the item name a record was created with: unique_name without '_#<id>'
ItemNameOf(rec) ==
    SubSeq(rec.unique_name, 1,
           Len(rec.unique_name) - Len(Sep \o IntToStr(rec.stock_id)))

\* the <<key, pair>> entries of the name index that mention stock id k
EntriesOf(k) ==
    {e \in UNION {{<<key, p>> : p \in name_id_map[key]} :
                     key \in DOMAIN name_id_map} : e[2][1] = k}

\* C1: on a Stockist, after any sequence of new_stock_item and
\* delete_stock_entry calls, every live stock id has exactly one pair in the
\* name index, filed under the record's own item name and carrying its
\* unique_name, and every pair of the index refers to a live id whose record
\* has that unique_name.
C1_Bijection ==
    /\ \A k \in DOMAIN stock :
          EntriesOf(k) = {<<ItemNameOf(stock[k]), <<k, stock[k].unique_name>>>>}
    /\ \A key \in DOMAIN name_id_map : \A p \in name_id_map[key] :
          p[1] \in DOMAIN stock /\ stock[p[1]].unique_name = p[2]

\* a delete has just succeeded, leaving a record of one item behind and the
\* emptied key of another
C1_Witness ==
    /\ last.op = "delete_stock_entry" /\ last.exc = NoExc
    /\ stock # <<>>
    /\ \E key \in DOMAIN name_id_map : name_id_map[key] = {}

\* C2: while the lock flag is set, new_stock_item, delete_stock_entry,
\* __setitem__, __delitem__ and update_stock_from_db raise StockLockedError
\* for every argument (a null item and an absent id included) and leave the
\* id map, the name index, the cursor and the store unchanged.
C2_LockedCallsRejected ==
    locked =>
      /\ \A item \in ItemArgs, id \in IdArgs :
           /\ \A force \in BOOLEAN, update_db \in UpdateDbArgs :
                LET r == new_stock_item(Here, item, id, force, update_db)
                IN r.exc = StockLockedError /\ Untouched(r)
           /\ LET r == setitem(Here, id, item)
              IN r.exc = StockLockedError /\ Untouched(r)
      /\ \A id \in IdArgs :
           /\ \A update_db \in UpdateDbArgs :
                LET r == delete_stock_entry(Here, id, update_db)
                IN r.exc = StockLockedError /\ Untouched(r)
           /\ LET r == delitem_id(Here, id)
              IN r.exc = StockLockedError /\ Untouched(r)
      /\ \A item \in Items :
           \A order \in Orders(stock_ids_for_item(Here, item)) :
              LET r == delitem_name(Here, item, order)
              IN r.exc = StockLockedError /\ Untouched(r)
      /\ kind # "Stockist" =>
           \A force \in BOOLEAN : \A stock_data \in database_stock(Here) :
              \A order \in Orders(DOMAIN stock_data) :
                 LET r == update_stock_from_db(Here, force, stock_data, order)
                 IN r.exc = StockLockedError /\ Untouched(r)

\* a delete on a locked ledger that holds records has just been rejected
C2_Witness ==
    /\ locked /\ stock # <<>>
    /\ last.op = "delete_stock_entry" /\ last.exc = StockLockedError

\* the ledger and the store are the same after the step as before
SameLedger == UNCHANGED <<stock, name_id_map, cursor, rows, tableExists>>

\* C3: while the lock flag is set, increase_stock on a live id raises
\* StockLockedError and leaves the record's count and the store row unchanged.
C3_LockedIncreaseRejected ==
    [][\A stock_id \in DOMAIN stock, amount \in Amounts,
          update_db \in UpdateDbArgs :
          (locked /\ IncreaseStock(stock_id, amount, update_db))
             => (last'.exc = StockLockedError /\ SameLedger)]_vars

\* C4: while the lock flag is set, stock_item raises StockLockedError and
\* leaves the ledger unchanged on every branch: item not yet stocked, item
\* with create, item already stocked without create, id with no item.
C4_LockedStockItemRejected ==
    [][\A item \in ItemArgs, item_id \in DOMAIN stock \cup {NoneId},
          amount \in Amounts, create \in BOOLEAN :
          (locked /\ (item # NoneItem \/ item_id # NoneId)
                  /\ StockItem(item, item_id, amount, create))
             => (last'.exc = StockLockedError /\ SameLedger)]_vars

\* C5: on an unlocked ledger, new_stock_item(item, new_id=k) without force
\* at a live id k raises the 'Stock ID already in use!' StockError and leaves
\* the id map, the name index and its keys, the cursor and the store unchanged.
C5_DuplicateIdRejected ==
    ~locked =>
      \A item \in Items, k \in DOMAIN stock, update_db \in UpdateDbArgs :
         LET r == new_stock_item(Here, item, k, FALSE, update_db)
         IN r.exc = DuplicateId /\ Untouched(r)

\* such a call has just been made
C5_Witness ==
    /\ last.op = "new_stock_item" /\ last.branch = "duplicate"
    /\ last.exc = DuplicateId

\* C6: new_stock_item(item, new_id=k, force=True) at a live id k returns k
\* and ends in the state of delete_stock_entry(k) followed by
\* new_stock_item(item, new_id=k): the record at k has count 0 and the
\* unique_name of the new item, and the old pair is gone from the index.
C6_ForceIsDeleteThenCreate ==
    [][\A item \in Items, k \in DOMAIN stock :
          (~locked /\ NewStockItem(item, k, TRUE, TRUE))
             => LET d == delete_stock_entry(Here, k, TRUE)
                    n == new_stock_item([d EXCEPT !.exc = NoExc], item, k,
                                        FALSE, TRUE)
                    old == <<k, stock[k].unique_name>>
                IN /\ last'.exc = NoExc /\ last'.ret = k
                   /\ stock' = n.stock /\ name_id_map' = n.name_id_map
                   /\ cursor' = n.cursor
                   /\ stock'[k] = create_item_data(k, item)
                   /\ old # <<k, stock'[k].unique_name>> =>
                        \A key \in DOMAIN name_id_map' :
                           old \notin name_id_map'[key]]_vars

\* the smallest non-negative integer that is not a live stock id
MinFree == CHOOSE n \in 0 .. Cardinality(DOMAIN stock) :
              /\ n \notin DOMAIN stock
              /\ \A m \in 0 .. n - 1 : m \in DOMAIN stock

\* C7: a read of next_free_stock_id never returns a live id, so
\* new_stock_item with an auto-allocated id never raises the duplicate-id
\* error; and the read that follows a reset of the cursor to 0 returns the
\* smallest non-negative integer not in the id map.
C7_NextFreeIsFree ==
    /\ next_free_stock_id(Here).ret \notin DOMAIN stock
    /\ last.op = "next_free_stock_id" => last.ret \notin DOMAIN stock
    /\ \A item \in Items, force \in BOOLEAN :
          Stockist_new_stock_item(Here, item, NoneId, force).exc # DuplicateId
    /\ last.op = "reset_cursor" => next_free_stock_id(Here).ret = MinFree

\* the cursor has just been rewound while the lowest id is free and a higher
\* one is still live
C7_Witness ==
    /\ last.op = "reset_cursor" /\ last.branch = "rewind"
    /\ 0 \notin DOMAIN stock /\ 1 \in DOMAIN stock

\* C8: on an unlocked ledger delete_stock_entry(k) for an id k that is not
\* live raises KeyError and leaves the id map, the name index and the store
\* unchanged, with update_db true or false.
C8_DeleteMissingRejected ==
    ~locked =>
      \A k \in IdArgs \ DOMAIN stock, update_db \in UpdateDbArgs :
         LET r == delete_stock_entry(Here, k, update_db)
         IN r.exc = KeyError /\ Untouched(r)

\* such a delete has just been made on a DatabaseStockist that holds records
\* and rows
C8_Witness ==
    /\ kind # "Stockist" /\ ~locked
    /\ last.op = "delete_stock_entry" /\ last.exc = KeyError
    /\ stock # <<>> /\ rows # EmptyBag

\* C9: on a concrete backend with a connection, from an empty ledger and an
\* empty table, after successful persisted calls only, the store holds
\* exactly one row (stock_id, unique_name, count) per live record.
C9_StoreMirrorsLedger ==
    mirrored =>
      /\ \A k \in DOMAIN stock :
            LET row == [pk |-> k, name |-> stock[k].unique_name,
                        count |-> stock[k].count]
            IN /\ row \in DOMAIN rows /\ rows[row] = 1
               /\ \A x \in DOMAIN rows : x.pk = k => x = row
      /\ \A x \in DOMAIN rows : x.pk \in DOMAIN stock

\* a persisted increase has just succeeded, with two records in the ledger
C9_Witness ==
    /\ mirrored /\ last.op = "increase_stock" /\ last.exc = NoExc
    /\ Cardinality(DOMAIN stock) = 2
    /\ \E k \in DOMAIN stock : stock[k].count = 2

\* every live record has a store row with its name and count
StoreCoversLedger ==
    \A k \in DOMAIN stock :
       \E x \in DOMAIN rows :
          x.pk = k /\ x.name = stock[k].unique_name /\ x.count = stock[k].count

\* C10: after every successful mutating call that requests persistence the
\* store has, for each in-memory record, a row with the same key, name and
\* count, also when an earlier call suppressed persistence.
C10_PersistedCallRestoresMirror ==
    [][(/\ kind \in ConcreteKinds /\ connected /\ tableExists
        /\ last'.exc = NoExc
        /\ \/ \E item \in Items, new_id \in IdArgs, force \in BOOLEAN :
                 NewStockItem(item, new_id, force, TRUE)
           \/ \E old_id \in Ids : DeleteStockEntry(old_id, TRUE)
           \/ \E stock_id \in Ids, amount \in Amounts :
                 IncreaseStock(stock_id, amount, TRUE)
           \/ \E item \in ItemArgs, item_id \in IdArgs, amount \in Amounts,
                 create \in BOOLEAN : StockItem(item, item_id, amount, create)
           \/ \E key \in IdArgs, item \in Items : SetItem(key, item)
           \/ \E key \in Ids : DelItemId(key)
           \/ \E item \in Items : DelItemName(item))
       => StoreCoversLedger']_vars

\* the errors a statement sent to the store can end in
StoreErrors == {StockConnectionError, NotImplementedError, AttributeError,
                OperationalError, ProgrammingError}

\* the call's result r has not reached the store
StoreLeftAlone(r) ==
    /\ r.rows = rows
    /\ r.tableExists = tableExists
    /\ r.exc \notin StoreErrors

\* C11: on a DatabaseStockist, new_stock_item, delete_stock_entry and
\* increase_stock called with update_db=False leave the rows of the store
\* unchanged and raise no store-related error, the forced new_stock_item at
\* a live id included.
C11_SuppressedLeavesStore ==
    kind # "Stockist" =>
      /\ \A item \in ItemArgs, new_id \in IdArgs, force \in BOOLEAN :
            StoreLeftAlone(new_stock_item(Here, item, new_id, force, FALSE))
      /\ \A old_id \in IdArgs :
            StoreLeftAlone(delete_stock_entry(Here, old_id, FALSE))
      /\ \A stock_id \in IdArgs, amount \in Amounts :
            StoreLeftAlone(increase_stock(Here, stock_id, amount, FALSE))

\* a newly constructed, empty and unlocked ledger attached to the store of s
Fresh(s) == [stock |-> <<>>, name_id_map |-> <<>>, cursor |-> 0,
             locked |-> FALSE, tableExists |-> s.tableExists, rows |-> s.rows,
             ok |-> s.ok, exc |-> NoExc, ret |-> NoneId]

\* the name index of r files every record of r under the label recovered
\* from its unique_name
GroupedByLabel(r) ==
    \A k \in DOMAIN r.stock :
       LET label == Split(r.stock[k].unique_name)[1]
       IN /\ label \in DOMAIN r.name_id_map
          /\ <<k, r.stock[k].unique_name>> \in r.name_id_map[label]

\* C12: on a concrete backend with a connection, from every reachable ledger
\* state, dump_stock_to_database() followed by update_stock_from_db() on a
\* fresh ledger attached to the same store succeeds and yields the same
\* (stock_id, unique_name, count) records, each id filed in the name index
\* under the label recovered from its unique_name.
C12_DumpPullRoundTrip ==
    (kind \in ConcreteKinds /\ connected) =>
      LET pulled(d) ==
             /\ d.exc = NoExc
             /\ \A force \in BOOLEAN : \A stock_data \in database_stock(d) :
                   \A order \in Orders(DOMAIN stock_data) :
                      LET same(r) == /\ r.exc = NoExc
                                     /\ r.stock = stock
                                     /\ GroupedByLabel(r)
                      IN same(update_stock_from_db(Fresh(d), force,
                                                   stock_data, order))
      IN pulled(dump_stock_to_database(Here, TRUE))

\* C13: update_stock_from_db, forced or not, is additive only: every record
\* of the ledger is still there after the call with the same unique_name and
\* count, also when the store has a row of that id with another name or
\* count, and the records added are rows whose ids were not in the ledger.
C13_PullIsAdditive ==
    kind # "Stockist" =>
      \A force \in BOOLEAN : \A stock_data \in database_stock(Here) :
         \A order \in Orders(DOMAIN stock_data) :
            LET additive(r) ==
                   /\ \A k \in DOMAIN stock :
                         /\ k \in DOMAIN r.stock
                         /\ r.stock[k].unique_name = stock[k].unique_name
                         /\ r.stock[k].count = stock[k].count
                   /\ \A k \in DOMAIN r.stock \ DOMAIN stock :
                         k \in DOMAIN stock_data /\ r.stock[k] = stock_data[k]
            IN additive(update_stock_from_db(Here, force, stock_data, order))

\* the record of item at id is in the id map and in the name index of r
Filed(r, id, item) ==
    /\ id \in DOMAIN r.stock
    /\ r.stock[id] = create_item_data(id, item)
    /\ Str(item) \in DOMAIN r.name_id_map
    /\ <<id, create_item_data(id, item).unique_name>>
          \in r.name_id_map[Str(item)]

\* id is in neither the id map nor a pair of the name index of r
Gone(r, id) ==
    /\ id \notin DOMAIN r.stock
    /\ \A key \in DOMAIN r.name_id_map :
          \A p \in r.name_id_map[key] : p[1] # id

\* C14: on the abstract DatabaseStockist, with or without a connection,
\* new_stock_item and delete_stock_entry called with persistence raise
\* NotImplementedError after the in-memory mutation: the new record is in
\* the id map and the name index, the deleted record is gone from both.
C14_AbstractBackendNotImplemented ==
    (kind = "DatabaseStockist" /\ ~locked) =>
      /\ \A item \in Items, new_id \in IdArgs, force \in BOOLEAN :
            (new_id \in DOMAIN stock => force) =>
               LET applied(r, id) ==
                      r.exc = NotImplementedError /\ Filed(r, id, item)
               IN applied(new_stock_item(Here, item, new_id, force, TRUE),
                          IF new_id = NoneId
                          THEN next_free_stock_id(Here).ret ELSE new_id)
      /\ \A old_id \in DOMAIN stock :
            LET applied(r) == r.exc = NotImplementedError /\ Gone(r, old_id)
            IN applied(delete_stock_entry(Here, old_id, TRUE))

\* C15: on a backend without an UPDATE template, increase_stock with
\* persistence on a live id raises NotImplementedError, and no other error,
\* after the in-memory count has been changed by the amount.
C15_NoUpdateTemplateNotImplemented ==
    (kind # "Stockist" /\ ~HasUpdate) =>
      \A stock_id \in DOMAIN stock, amount \in Amounts :
         LET applied(r) ==
                /\ r.exc = NotImplementedError
                /\ r.stock[stock_id].count = stock[stock_id].count + amount
         IN applied(increase_stock(Here, stock_id, amount, TRUE))

\* the item of the scenario
Widget == <<"w", "i", "d", "g", "e", "t">>

\* the id a successful stock_item resolves in the state s
Resolved(s, item, item_id, create) ==
    LET branch == stock_item_branch(s, item, item_id, create)
    IN IF branch = "new"
       THEN IF item_id = NoneId THEN next_free_stock_id(s).ret ELSE item_id
       ELSE IF branch = "last" THEN last_stock_id_for_item(s, item)
       ELSE item_id

\* C16: on a newly constructed ledger new_stock_item("widget") returns 0 with
\* count 0, stock_item(item="widget", amount=3) returns 0 and makes the count
\* 3, stock_item(item="widget", create=True) returns 1 with count 1 at id 1
\* and count 3 kept at id 0, and last_stock_id_for_item("widget") is then 1.
\* In every state in which a call can start, a successful stock_item returns
\* the id it resolved, adds exactly amount to that record and changes no
\* other record.
C16_StockItemScenario ==
    last = Idle =>
    /\ LET last_is(s3) ==
               /\ s3.exc = NoExc /\ s3.ret = 1
               /\ s3.stock[1].count = 1 /\ s3.stock[0].count = 3
               /\ last_stock_id_for_item(s3, Widget) = 1
           second(s2) ==
               /\ s2.exc = NoExc /\ s2.ret = 0 /\ s2.stock[0].count = 3
               /\ last_is(stock_item(s2, Widget, NoneId, 1, TRUE))
           first(s1) ==
               /\ s1.exc = NoExc /\ s1.ret = 0 /\ s1.stock[0].count = 0
               /\ second(stock_item(s1, Widget, NoneId, 3, FALSE))
       IN first(new_stock_item(Fresh(Here), Widget, NoneId, FALSE, TRUE))
    /\ \A item \in ItemArgs, item_id \in IdArgs, amount \in Amounts,
          create \in BOOLEAN :
          LET exact(r, id) ==
                 r.exc = NoExc =>
                    /\ r.ret = id
                    /\ DOMAIN r.stock = DOMAIN stock \cup {id}
                    /\ r.stock[id].count =
                          (IF id \in DOMAIN stock THEN stock[id].count ELSE 0)
                             + amount
                    /\ \A k \in DOMAIN r.stock \ {id} : r.stock[k] = stock[k]
          IN exact(stock_item(Here, item, item_id, amount, create),
                   Resolved(Here, item, item_id, create))

\* stock_item with create has just allocated id 1 with count 1 for an item
\* whose record 0 keeps the count 2 of an earlier stock_item
C16_Witness ==
    /\ last.op = "stock_item" /\ last.branch = "new" /\ last.exc = NoExc
    /\ last.ret = 1
    /\ DOMAIN stock = {0, 1}
    /\ stock[1].count = 1 /\ stock[0].count = 2
    /\ stock_ids_for_item(Here, <<"a">>) = {0, 1}

\* C17: locking is reversible and leaves no residue: on an unlocked ledger
\* whose caller is about to make a call, after lock_stock_list, a new_stock_item call (rejected with
\* StockLockedError) and unlock_stock_list, the same new_stock_item call has
\* the outcome, the returned id and the resulting ledger it has when the
\* ledger is never locked.
C17_LockLeavesNoResidue ==
    (last = Idle /\ ~locked) =>
      \A item \in ItemArgs, new_id \in IdArgs, force \in BOOLEAN,
         update_db \in UpdateDbArgs :
         LET retried(rejected) ==
                /\ rejected.exc = StockLockedError
                /\ new_stock_item(
                      unlock_stock_list([rejected EXCEPT !.exc = NoExc]),
                      item, new_id, force, update_db)
                   = new_stock_item(Here, item, new_id, force, update_db)
         IN retried(new_stock_item(lock_stock_list(Here), item, new_id, force,
                                   update_db))

\* unlock_stock_list has just released the lock of a ledger that holds a
\* record and has an id free for the next new_stock_item
C17_Witness ==
    /\ last.op = "unlock_stock_list" /\ last.branch = "released"
    /\ ~locked /\ stock # <<>>
    /\ new_stock_item(Here, <<"a">>, NoneId, FALSE, TRUE).exc = NoExc

\* C18: on an unlocked ledger, stock_item(item=X, amount=a) without create,
\* for an item X that has no live record (never stocked, or stocked earlier
\* and all of its records deleted since), allocates a new record for X and
\* leaves it with count a.
C18_StockItemAllocatesWithoutRecords ==
    ~locked =>
      \A item \in Items, amount \in Amounts :
         stock_ids_for_item(Here, item) = {} =>
            LET allocated(r) ==
                   /\ r.exc = NoExc
                   /\ r.ret \notin DOMAIN stock
                   /\ Filed([r EXCEPT !.stock[r.ret].count = 0], r.ret, item)
                   /\ r.stock[r.ret].count = amount
            IN allocated(stock_item(Here, item, NoneId, amount, FALSE))

\* C19: on an unlocked ledger, after an item has been allocated at a free id
\* k1 and then at another free id k2, in either order of the ids,
\* stock_item(item) without create and without id targets k2, the most
\* recently allocated record of the item.
C19_StockItemTargetsMostRecent ==
    ~locked =>
      \A item \in Items, k1 \in Ids \ DOMAIN stock :
         \A k2 \in Ids \ (DOMAIN stock \cup {k1}), amount \in Amounts :
            LET targeted(r) == r.exc = NoExc /\ r.ret = k2
                second(s2) ==
                   s2.exc = NoExc =>
                      targeted(stock_item(s2, item, NoneId, amount, FALSE))
                first(s1) ==
                   s1.exc = NoExc =>
                      second(new_stock_item(s1, item, k2, FALSE, TRUE))
            IN first(new_stock_item(Here, item, k1, FALSE, TRUE))

\* C20: item_stocked(item) raises the 'Unable to process NoneType!'
\* StockError for the null item, as new_stock_item does, and for any other
\* item returns true exactly when str(item) is a key of the name index.
C20_ItemStockedRejectsNull ==
    [][\A item \in ItemArgs :
          ItemStocked(item) =>
             IF item = NoneItem
             THEN last'.exc = InvalidItem /\ last'.exc
                     = new_stock_item(unlock_stock_list(Here), item, NoneId,
                                      FALSE, FALSE).exc
             ELSE /\ last'.exc = NoExc
                  /\ last'.ret = 1 <=> Str(item) \in DOMAIN name_id_map]_vars

\* C21: the lock flag is a boolean and is false on a new ledger; assigning a
\* non-boolean value to stock_locked raises ValueError and leaves the flag as
\* it was, assigning a boolean sets it; lock_stock_list sets it to true,
\* unlock_stock_list to false, and is_locked equals stock_locked.
C21_LockFlagIsBoolean ==
    /\ ~locked
    /\ [](/\ locked \in BOOLEAN
          /\ is_locked(Here) = stock_locked(Here)
          /\ is_locked(Here) = locked
          /\ \A value \in LockValues :
                LET assigned(r) ==
                       IF value \in {PyTrue, PyFalse}
                       THEN r.exc = NoExc /\ r.locked = (value = PyTrue)
                       ELSE r.exc = ValueError /\ r.locked = locked
                IN assigned(set_stock_locked(Here, value))
          /\ lock_stock_list(Here).locked = TRUE
          /\ unlock_stock_list(Here).locked = FALSE
          /\ last.op = "lock_stock_list" => locked
          /\ last.op = "unlock_stock_list" => ~locked
          /\ (last.op = "stock_locked" /\ last.branch # "bool")
                => last.exc = ValueError)

\* the assignment of a non-boolean value to the flag of a locked ledger has
\* just been rejected and the ledger is still locked
C21_Witness ==
    /\ last.op = "stock_locked" /\ last.branch = "NoneType"
    /\ last.exc = ValueError
    /\ locked

\* the number of rows of the table B with primary key k
RowsWithPk(B, k) == SumCopies(B, {x \in DOMAIN B : x.pk = k})

\* C22: on a concrete backend with a connection and a table,
\* update_database(force=False) inserts exactly one row for each in-memory
\* id that is not a key of the store and no other row, leaves the ledger
\* unchanged, makes is_database_up_to_date true, and inserts nothing when
\* repeated at once.
C22_UpdateDatabaseInsertsMissing ==
    (last = Idle /\ kind \in ConcreteKinds /\ connected /\ tableExists) =>
      \A stock_data \in database_stock(Here) :
         LET keys == {x.pk : x \in DOMAIN rows}
             once(r) ==
                /\ r.exc = NoExc
                /\ \A k \in DOMAIN stock \ keys :
                      /\ RowsWithPk(r.rows, k) = 1
                      /\ CopiesIn([pk |-> k, name |-> stock[k].unique_name,
                                   count |-> stock[k].count], r.rows) = 1
                /\ \A k \in keys : \A x \in DOMAIN r.rows :
                      x.pk = k => x \in DOMAIN rows /\ r.rows[x] = rows[x]
                /\ \A x \in DOMAIN rows : CopiesIn(x, r.rows) = rows[x]
                /\ \A x \in DOMAIN r.rows : x.pk \in keys \cup DOMAIN stock
                /\ r.stock = stock /\ r.name_id_map = name_id_map
                /\ r.cursor = cursor /\ r.locked = locked
                /\ \A again \in database_stock(r) :
                      /\ is_database_up_to_date(r, again)
                      /\ update_database(r, FALSE, again).rows = r.rows
         IN once(update_database(Here, FALSE, stock_data))

\* update_database without force has just inserted the missing records into
\* a table that also holds a row of an id that is not live
C22_Witness ==
    /\ last.op = "update_database" /\ last.branch = "insert"
    /\ last.exc = NoExc
    /\ \E x \in DOMAIN rows : x.pk \notin DOMAIN stock
    /\ \A k \in DOMAIN stock : RowsWithPk(rows, k) >= 1

\* C23: where the store can be read, is_missing_stock_from_database is true
\* exactly when some key of the store is not a live stock id, and
\* is_database_up_to_date is true exactly when every live stock id is a key
\* of the store, whatever the names and counts of rows and records; neither
\* read changes the ledger or the store.
C23_StoreChecksCompareKeys ==
    [][/\ (IsMissingStockFromDatabase /\ StoreFault(Here) = NoExc) =>
            /\ last'.exc = NoExc
            /\ last'.ret = 1 <=> \E x \in DOMAIN rows : x.pk \notin DOMAIN stock
            /\ last'.ret \in {0, 1}
            /\ SameLedger /\ UNCHANGED locked
       /\ (IsDatabaseUpToDate /\ StoreFault(Here) = NoExc) =>
            /\ last'.exc = NoExc
            /\ last'.ret = 1 <=> \A k \in DOMAIN stock :
                                    \E x \in DOMAIN rows : x.pk = k
            /\ last'.ret \in {0, 1}
            /\ SameLedger /\ UNCHANGED locked]_vars

\* is_missing_stock_from_database has just answered true on a ledger that
\* holds a record, for a store with a row of that record and a row of an id
\* that is not live
C23_Witness ==
    /\ last.op = "is_missing_stock_from_database" /\ last.ret = 1
    /\ \E k \in DOMAIN stock : \E x \in DOMAIN rows : x.pk = k
    /\ \E x \in DOMAIN rows : x.pk \notin DOMAIN stock

\* C24: on an unlocked ledger, indexed delete with the integer key of a live
\* record removes exactly that record, and indexed delete with a non-integer
\* key removes every record indexed under str(key) and no other record;
\* afterwards stock_ids_for_item(key) is empty.
C24_IndexedDelete ==
    (last = Idle /\ ~locked) =>
      /\ \A key \in DOMAIN stock :
            LET one(r) == /\ r.exc = NoExc
                          /\ DOMAIN r.stock = DOMAIN stock \ {key}
                          /\ \A k \in DOMAIN r.stock : r.stock[k] = stock[k]
            IN one(delitem_id(Here, key))
      /\ \A item \in Items :
            \A order \in Orders(stock_ids_for_item(Here, item)) :
               LET every(r, ids) ==
                      /\ r.exc = NoExc
                      /\ DOMAIN r.stock = DOMAIN stock \ ids
                      /\ \A k \in DOMAIN r.stock : r.stock[k] = stock[k]
                      /\ stock_ids_for_item(r, item) = {}
               IN every(delitem_name(Here, item, order),
                        stock_ids_for_item(Here, item))

\* the live stock ids that have a pair under str(item) in the name index
LiveIdsOf(item) ==
    {k \in DOMAIN stock :
        /\ Str(item) \in DOMAIN name_id_map
        /\ \E p \in name_id_map[Str(item)] : p[1] = k}

\* C25: last_stock_id_for_item(item) returns the numerically greatest id
\* among the live records indexed under str(item), and None when there is
\* none; last_stock_entry_for_item returns the record at that id, or None.
C25_LastIdIsGreatest ==
    \A item \in ItemArgs :
       LET greatest(id, entry, ids) ==
              IF ids = {} THEN id = NoneId /\ entry = NoneEntry
              ELSE /\ id \in ids
                   /\ \A k \in ids : k <= id
                   /\ entry = stock[id]
       IN /\ greatest(last_stock_id_for_item(Here, item),
                      last_stock_entry_for_item(Here, item), LiveIdsOf(item))
          /\ (last.op = "last_stock_entry_for_item" /\ last.branch = "none")
                => last.ret = NoneId

\* the ledger after n auto-allocations of item from the ledger s
RECURSIVE AutoCreate(_, _, _)
AutoCreate(s, item, n) ==
    IF n = 0 THEN s
    ELSE new_stock_item(AutoCreate(s, item, n - 1), item, NoneId, FALSE, TRUE)

\* C26: unless the cursor is reset from outside, it never decreases over any
\* step, and an auto-allocated id is never below the cursor, so an id freed
\* below the cursor is not handed out again: after auto-creating ids 0, 1, 2
\* and deleting 0 the next auto id is 3.  An id freed at or above the cursor
\* is handed out again once the ids between the cursor and it are live.
C26_CursorNeverDecreases ==
    /\ [][/\ ~ResetCursor => cursor' >= cursor
          /\ \A item \in Items, force \in BOOLEAN, update_db \in UpdateDbArgs :
                (NewStockItem(item, NoneId, force, update_db)
                    /\ last'.exc = NoExc)
                  => last'.ret >= cursor /\ last'.ret \notin DOMAIN stock]_vars
    /\ [](last = Idle =>
          /\ LET next(s4) == s4.exc = NoExc /\ s4.ret = 3
                 freed(s3) ==
                    /\ s3.exc = NoExc /\ DOMAIN s3.stock = {1, 2}
                    /\ next(new_stock_item(s3, Widget, NoneId, FALSE, TRUE))
                 created(s2) ==
                    /\ s2.exc = NoExc /\ DOMAIN s2.stock = {0, 1, 2}
                    /\ freed(delete_stock_entry(s2, 0, TRUE))
             IN created(AutoCreate(Fresh(Here), Widget, 3))
          /\ ~locked =>
               \A k \in DOMAIN stock, item \in Items :
                  LET reused(d) ==
                         d.exc = NoExc =>
                            LET given(r) ==
                                   /\ r.exc = NoExc
                                   /\ k < cursor => r.ret # k
                                   /\ k >= cursor =>
                                        /\ r.ret <= k
                                        /\ (\A j \in cursor .. k - 1 :
                                              j \in DOMAIN stock) => r.ret = k
                            IN given(new_stock_item(d, item, NoneId, FALSE,
                                                    TRUE))
                  IN reused(delete_stock_entry(Here, k, TRUE)))

\* an auto-allocation has just handed out id 1 again, freed at the cursor,
\* while id 0, freed below the cursor, stays free
C26_Witness ==
    /\ last.op = "new_stock_item" /\ last.branch = "auto"
    /\ last.exc = NoExc /\ last.ret = 1
    /\ cursor = 1 /\ DOMAIN stock = {1}

\* the record rec at key k of the ledger r is well formed: its stock_id is
\* its key, the key is non-negative, and its unique_name is "<item>_#<k>"
\* for the item it is filed under
WellFormed(r, k) ==
    /\ r.stock[k].stock_id = k
    /\ k >= 0
    /\ \E item \in Items :
          /\ r.stock[k].unique_name = Str(item) \o Sep \o IntToStr(k)
          /\ Str(item) \in DOMAIN r.name_id_map
          /\ <<k, r.stock[k].unique_name>> \in r.name_id_map[Str(item)]

\* C27: in every state reached through new_stock_item, delete_stock_entry,
\* increase_stock and stock_item, for every integer id a caller passes, each
\* record stored at key k has stock_id = k, a non-negative k and the
\* unique_name "<item>_#<k>" of the item it was created with; increase_stock
\* changes the count only, and a new record starts with count 0.
C27_RecordsWellFormed ==
    (last = Idle /\ ~locked) =>
      /\ \A k \in DOMAIN stock : WellFormed(Here, k)
      /\ \A item \in Items, new_id \in IdArgs \cup {NegId}, force \in BOOLEAN :
            LET created(r) ==
                   r.exc = NoExc =>
                      /\ \A k \in DOMAIN r.stock : WellFormed(r, k)
                      /\ r.stock[r.ret].count = 0
            IN created(new_stock_item(Here, item, new_id, force, TRUE))
      /\ \A item \in Items, item_id \in IdArgs \cup {NegId},
            amount \in Amounts, create \in BOOLEAN :
            LET stocked(r) ==
                   r.exc = NoExc => \A k \in DOMAIN r.stock : WellFormed(r, k)
            IN stocked(stock_item(Here, item, item_id, amount, create))
      /\ \A k \in DOMAIN stock, amount \in Amounts :
            LET counted(r) ==
                   /\ r.exc = NoExc
                   /\ r.stock = [stock EXCEPT ![k].count = @ + amount]
                   /\ r.name_id_map = name_id_map
            IN counted(increase_stock(Here, k, amount, TRUE))
      /\ \A k \in DOMAIN stock :
            LET deleted(r) ==
                   r.exc = NoExc => \A j \in DOMAIN r.stock : WellFormed(r, j)
            IN deleted(delete_stock_entry(Here, k, TRUE))

\* in the ledger r every pair of the name index refers to a live id whose
\* record carries the pair's unique_name, and every live id has exactly one
\* pair
ConsistentIn(r) ==
    /\ \A key \in DOMAIN r.name_id_map : \A p \in r.name_id_map[key] :
          p[1] \in DOMAIN r.stock /\ r.stock[p[1]].unique_name = p[2]
    /\ \A k \in DOMAIN r.stock :
          Cardinality({e \in UNION {{<<key, p>> : p \in r.name_id_map[key]} :
                                      key \in DOMAIN r.name_id_map} :
                         e[2][1] = k}) = 1

\* C28: update_stock_from_db keeps the name index and the id map consistent
\* in every reachable state of ledger and store, also when persistence was
\* suppressed and the store holds a row for a live id under another item
\* name: after a successful call every pair of the index refers to a live id
\* whose record carries that unique_name, and every live id has exactly one
\* pair.
C28_PullKeepsIndexConsistent ==
    (kind # "Stockist" /\ last = Idle /\ ConsistentIn(Here)) =>
      \A force \in BOOLEAN : \A stock_data \in database_stock(Here) :
         \A order \in Orders(DOMAIN stock_data) :
            LET kept(r) == r.exc = NoExc => ConsistentIn(r)
            IN kept(update_stock_from_db(Here, force, stock_data, order))

\* C29: the store never holds two rows with the same pk, after any sequence
\* of ledger and adapter calls, persisted or not, update_database(force=True)
\* included.
C29_PkUnique ==
    \A x \in DOMAIN rows : RowsWithPk(rows, x.pk) = 1

\* the state a call works on when the store fails at its statement n + 1
Failing(n) == [Here EXCEPT !.ok = n]

\* C30: a single logical mutation is atomic towards the store: when a store
\* statement fails part-way through new_stock_item with force at a live id,
\* through stock_item that allocates and then increases, or through indexed
\* delete by name, the rows of the store are those before the call or those
\* after the call had it succeeded.
C30_MutationAtomicTowardsStore ==
    (/\ kind \in ConcreteKinds /\ connected /\ tableExists
     /\ last = Idle /\ ~locked) =>
      \A n \in Faults :
         LET atomic(r, post) ==
                (r.exc = OperationalError /\ post.exc = NoExc)
                   => r.rows \in {rows, post.rows}
         IN /\ \A item \in Items, k \in DOMAIN stock :
                  atomic(new_stock_item(Failing(n), item, k, TRUE, TRUE),
                         new_stock_item(Here, item, k, TRUE, TRUE))
            /\ \A item \in Items, amount \in Amounts, create \in BOOLEAN :
                  stock_item_branch(Here, item, NoneId, create) = "new" =>
                     atomic(stock_item(Failing(n), item, NoneId, amount,
                                       create),
                            stock_item(Here, item, NoneId, amount, create))
            /\ \A item \in Items :
                  \A order \in Orders(stock_ids_for_item(Here, item)) :
                     atomic(delitem_name(Failing(n), item, order),
                            delitem_name(Here, item, order))

\* C31: on a concrete backend with no connection and an unlocked ledger,
\* new_stock_item (at a free id, or forced at a live id), delete_stock_entry
\* at a live id and increase_stock at a live id raise StockConnectionError
\* when called with persistence, after the in-memory mutation has been
\* applied; called with update_db=False they succeed with the same
\* in-memory mutation.
C31_NoConnectionAfterMutation ==
    (kind \in ConcreteKinds /\ ~connected /\ last = Idle /\ ~locked) =>
      \A update_db \in BOOLEAN :
         LET outcome(r) ==
                r.exc = (IF update_db THEN StockConnectionError ELSE NoExc)
         IN /\ \A item \in Items, new_id \in IdArgs, force \in BOOLEAN :
                  (new_id \in DOMAIN stock => force) =>
                     LET applied(r, id) == outcome(r) /\ Filed(r, id, item)
                     IN applied(new_stock_item(Here, item, new_id, force,
                                               update_db),
                                IF new_id = NoneId
                                THEN next_free_stock_id(Here).ret ELSE new_id)
            /\ \A old_id \in DOMAIN stock :
                  LET applied(r) == outcome(r) /\ Gone(r, old_id)
                  IN applied(delete_stock_entry(Here, old_id, update_db))
            /\ \A stock_id \in DOMAIN stock, amount \in Amounts :
                  LET applied(r) ==
                         /\ outcome(r)
                         /\ r.stock[stock_id].count
                               = stock[stock_id].count + amount
                  IN applied(increase_stock(Here, stock_id, amount, update_db))

\* C32: the name index has no key whose set of pairs is empty: for an item
\* that has no record (all of them deleted by delete_stock_entry or by
\* indexed delete, or none ever created) item_stocked(item) and the
\* membership test "item in stockist" are false.
C32_NoEmptyIndexKeys ==
    /\ \A key \in DOMAIN name_id_map : name_id_map[key] # {}
    /\ \A item \in Items :
          stock_ids_for_item(Here, item) = {} =>
             ~item_stocked(Here, item) /\ ~contains_item(Here, item)
    /\ \A k \in Ids : contains_id(Here, k) <=> k \in DOMAIN stock

\* the call's result r has the id map, the name index, the cursor and the
\* lock flag of the state it started in, and was not rejected by the lock
OnlyStore(r) ==
    /\ r.stock = stock
    /\ r.name_id_map = name_id_map
    /\ r.cursor = cursor
    /\ r.locked = locked
    /\ r.exc # StockLockedError

\* C33: create_database, reset_database, dump_stock_to_database and
\* update_database change only the store: the id map, the name index, the
\* cursor and the lock flag are as before the call.  After a successful
\* reset_database the table is empty, and after a successful
\* dump_stock_to_database it holds exactly one row per in-memory record,
\* whatever it held before.  None of them is rejected on a locked ledger:
\* with a connection reset_database succeeds, and so does
\* dump_stock_to_database on a concrete backend.
C33_AdapterChangesOnlyStore ==
    (kind # "Stockist" /\ last = Idle) =>
      /\ OnlyStore(create_database(Here))
      /\ LET emptied(r) ==
                /\ OnlyStore(r)
                /\ connected <=> r.exc = NoExc
                /\ r.exc = NoExc => r.tableExists /\ r.rows = EmptyBag
         IN emptied(reset_database(Here))
      /\ \A ddl_kept \in BOOLEAN :
            LET dumped(r) ==
                   /\ OnlyStore(r)
                   /\ (kind \in ConcreteKinds /\ connected) <=> r.exc = NoExc
                   /\ r.exc = NoExc =>
                        /\ r.tableExists
                        /\ \A k \in DOMAIN stock :
                              /\ RowsWithPk(r.rows, k) = 1
                              /\ CopiesIn([pk |-> k,
                                           name |-> stock[k].unique_name,
                                           count |-> stock[k].count],
                                          r.rows) = 1
                        /\ \A x \in DOMAIN r.rows : x.pk \in DOMAIN stock
            IN dumped(dump_stock_to_database(Here, ddl_kept))
      /\ \A force \in BOOLEAN : \A stock_data \in database_stock(Here) :
            OnlyStore(update_database(Here, force, stock_data))

\* dump_stock_to_database has just succeeded on a ledger that holds a
\* record, for a table that held a row of an id that is not live
C33_Witness ==
    /\ last.op = "dump_stock_to_database" /\ last.branch = "replace"
    /\ last.exc = NoExc
    /\ stock # <<>>

\* the keys of the name index of r under which the ledger files stock id k
KeysOf(r, k) ==
    {key \in DOMAIN r.name_id_map :
        \E p \in r.name_id_map[key] : p[1] = k}

\* C34: for every item name new_stock_item accepts, names that contain the
\* separator "_#" included, the label recovered by splitting unique_name is
\* the key of the name index the record was filed under, so that on an
\* unlocked ledger delete_stock_entry on a live id succeeds and removes the
\* record from the id map and the name index, and update_stock_from_db
\* succeeds and files every row it pulls under the key its record was
\* created under; a pull that fails leaves the name index as it was.  The
\* ledger the calls start from has a consistent name index.
C34_SeparatorInItemName ==
    (last = Idle /\ ~locked /\ ConsistentIn(Here)) =>
      /\ \A item \in Items, id \in Ids \ DOMAIN stock :
            LET filed(r) ==
                   /\ r.exc = NoExc
                   /\ Split(r.stock[id].unique_name)[1] = Str(item)
                   /\ KeysOf(r, id) = {Split(r.stock[id].unique_name)[1]}
                   /\ LET deleted(d) == d.exc = NoExc /\ Gone(d, id)
                      IN deleted(delete_stock_entry(r, id, FALSE))
            IN filed(new_stock_item(Here, item, id, FALSE, FALSE))
      /\ \A k \in DOMAIN stock :
            LET deleted(d) == d.exc = NoExc /\ Gone(d, k)
            IN deleted(delete_stock_entry(Here, k, FALSE))
      /\ (kind # "Stockist" /\ connected /\ tableExists) =>
            \A force \in BOOLEAN : \A stock_data \in database_stock(Here) :
               \A order \in Orders(DOMAIN stock_data) :
                  LET pulled(r) ==
                         /\ r.exc # ValueError
                         /\ r.exc = NoExc =>
                               \A k \in DOMAIN stock_data :
                                  k \in DOMAIN r.stock =>
                                     ItemNameOf(r.stock[k]) \in KeysOf(r, k)
                         /\ r.exc # NoExc =>
                               r.name_id_map = name_id_map
                  IN pulled(update_stock_from_db(Here, force, stock_data,
                                                 order))

====
